---------------------------- MODULE Spec2Model ----------------------------
(***************************************************************************)
(* A model of the consistent hash ring of chr.py: the binary search tree   *)
(* of SubTree nodes and the ConsistentHashRing wrapper around its head.    *)
(*                                                                         *)
(* A SubTree object is a record [value, key, left, right]; Python's None   *)
(* is the empty tuple.  Methods that mutate a node in place are operators  *)
(* returning the node after the call.  A call on the ring is one action;   *)
(* the caller's view of the call (which method, which argument, what it    *)
(* returned or raised, the tree before it) is kept in call, result and     *)
(* prevHead.                                                               *)
(***************************************************************************)
EXTENDS Integers, Sequences, FiniteSets, TLC

\* The values handed to the ring are the integers -MaxNegative..MaxPositive.
MaxNegative == 3

MaxPositive == 2

Values == (0 - MaxNegative)..MaxPositive

\* The negative values alone, -MaxBelowZero..-1: they hold the two values with
\* one hash, -1 and -2, and MaxBelowZero - 1 distinct hashes.
MaxBelowZero == 4

NegativeValues == (0 - MaxBelowZero)..(0 - 1)

None == <<>>

VARIABLES
    head,       \* ConsistentHashRing.head: a SubTree record or None
    added,      \* the values a test case added to the ring and has not removed
    phase,      \* whether the test case is still adding ("add") or removing ("remove")
    call,       \* the last method called on the ring, with its argument
    result,     \* what that call returned or raised
    prevHead,   \* head as it was when that call started
    other_head  \* the head of a second ring, the one a ring is compared with

vars == <<head, added, phase, call, result, prevHead, other_head>>

-----------------------------------------------------------------------------
(* Python values and outcomes *)

\* CPython's hash of a small int is the int itself, except that -1 hashes to -2.
hash(value) == IF value = -1 THEN -2 ELSE value

Abs(n) == IF n < 0 THEN 0 - n ELSE n

\* An optional value: None, or a one-element tuple holding the value.
Some(value) == <<value>>

\* The truth value Python gives a lookup result in "if best_match:".
Truthy(opt) == opt # None /\ opt[1] # 0

\* The outcome of a call: it returns a value or raises an exception.
Return(value) == [raised |-> "none", value |-> value]

Raise(exception) == [raised |-> exception, value |-> None]

-----------------------------------------------------------------------------
(* class SubTree *)

SubTree(value) == [value |-> value, key |-> hash(value), left |-> None, right |-> None]

\* add_child with a slip: a value that belongs to the right of a node that has a
\* right child replaces that child instead of descending into it.
RECURSIVE add_child_replacing_right(_, _)
add_child_replacing_right(self, value) ==
    LET key == hash(value) IN
    IF key = self.key THEN self
    ELSE IF key > self.key
         THEN [self EXCEPT !.right = SubTree(value)]
         ELSE IF self.left = None
              THEN [self EXCEPT !.left = SubTree(value)]
              ELSE [self EXCEPT !.left = add_child_replacing_right(self.left, value)]

RECURSIVE add_child(_, _)
add_child(self, value) ==
    LET key == hash(value) IN
    IF key = self.key THEN self
    ELSE IF key > self.key
         THEN IF self.right = None
              THEN [self EXCEPT !.right = SubTree(value)]
              ELSE [self EXCEPT !.right = add_child(self.right, value)]
         ELSE IF self.left = None
              THEN [self EXCEPT !.left = SubTree(value)]
              ELSE [self EXCEPT !.left = add_child(self.left, value)]

RECURSIVE find_minimum_subtree_child_value(_)
find_minimum_subtree_child_value(self) ==
    IF self.left # None
    THEN find_minimum_subtree_child_value(self.left)
    ELSE self.value

find_in_order_successor(self) ==
    IF self.right = None
    THEN None
    ELSE find_minimum_subtree_child_value(self.right)

\* The two-child case stores the successor's value in self.value and leaves
\* self.key as it was.
RECURSIVE remove_value(_, _)
remove_value(self, value) ==
    LET key == hash(value) IN
    IF key = self.key
    THEN IF self.left = None /\ self.right = None THEN None
         ELSE IF self.left = None THEN self.right
         ELSE IF self.right = None THEN self.left
         ELSE LET successor == find_in_order_successor(self) IN
              [self EXCEPT !.value = successor,
                           !.right = remove_value(self.right, successor)]
    ELSE [self EXCEPT
            !.left  = IF self.left # None THEN remove_value(self.left, value) ELSE self.left,
            !.right = IF self.right # None THEN remove_value(self.right, value) ELSE self.right]

RECURSIVE SubTree_contains(_, _)
SubTree_contains(self, value) ==
    LET key == hash(value) IN
    IF key = self.key THEN TRUE
    ELSE IF key > self.key
         THEN IF self.right = None THEN FALSE ELSE SubTree_contains(self.right, value)
         ELSE IF self.left = None THEN FALSE ELSE SubTree_contains(self.left, value)

RECURSIVE SubTree_iter(_)
SubTree_iter(self) ==
    (IF self.left # None THEN SubTree_iter(self.left) ELSE <<>>)
    \o <<self.value>>
    \o (IF self.right # None THEN SubTree_iter(self.right) ELSE <<>>)

-----------------------------------------------------------------------------
(* class ConsistentHashRing *)

\* The loop of find_best_match with a slip: an exact match returns the node's
\* key, not its value.
RECURSIVE find_best_match_walk_returning_key(_, _, _, _, _)
find_best_match_walk_returning_key(ringHead, current_node, key, best_match, best_match_key) ==
    IF current_node = None
    THEN IF Truthy(best_match)
         THEN Return(best_match)
         ELSE Return(Some(find_minimum_subtree_child_value(ringHead)))
    ELSE IF current_node.key = key
    THEN Return(Some(current_node.key))
    ELSE IF current_node.key > key
    THEN LET closer == \/ best_match_key = None
                       \/ Abs(current_node.key - key) < Abs(best_match_key[1] - key)
             new_match == IF closer THEN Some(current_node.value) ELSE best_match
         IN find_best_match_walk_returning_key(ringHead, current_node.left, key,
                                               new_match, Some(hash(new_match[1])))
    ELSE find_best_match_walk_returning_key(ringHead, current_node.right, key,
                                            best_match, best_match_key)

\* The loop of find_best_match from current_node on.  best_match is None or
\* Some(value); best_match_key is None for float("inf") or Some(key).
RECURSIVE find_best_match_walk(_, _, _, _, _)
find_best_match_walk(ringHead, current_node, key, best_match, best_match_key) ==
    IF current_node = None
    THEN IF Truthy(best_match)
         THEN Return(best_match)
         ELSE Return(Some(find_minimum_subtree_child_value(ringHead)))
    ELSE IF current_node.key = key
    THEN Return(Some(current_node.value))
    ELSE IF current_node.key > key
    THEN LET closer == \/ best_match_key = None
                       \/ Abs(current_node.key - key) < Abs(best_match_key[1] - key)
             new_match == IF closer THEN Some(current_node.value) ELSE best_match
         IN find_best_match_walk(ringHead, current_node.left, key,
                                 new_match, Some(hash(new_match[1])))
    ELSE find_best_match_walk(ringHead, current_node.right, key,
                              best_match, best_match_key)

\* find_best_match without its test for an empty tree: the loop is skipped and
\* None._find_minimum_subtree_child_value() raises AttributeError.
find_best_match_unguarded(ringHead, value) ==
    IF ringHead = None
    THEN Raise("AttributeError")
    ELSE find_best_match_walk(ringHead, ringHead, hash(value), None, None)

find_best_match(ringHead, value) ==
    IF ringHead = None
    THEN Return(None)
    ELSE find_best_match_walk(ringHead, ringHead, hash(value), None, None)

\* iter(None) raises TypeError.
ring_iter(ringHead) ==
    IF ringHead = None
    THEN Raise("TypeError")
    ELSE Return(SubTree_iter(ringHead))

ring_len(ringHead) ==
    IF ringHead = None
    THEN Raise("TypeError")
    ELSE Return(Len(SubTree_iter(ringHead)))

\* SubTree.__repr__ without the left child.
RECURSIVE SubTree_repr_without_left(_)
SubTree_repr_without_left(self) ==
    "Node(value=" \o ToString(self.value)
    \o ", right=" \o (IF self.right = None THEN "None"
                       ELSE SubTree_repr_without_left(self.right))
    \o ")"

\* "Node(value={0}, right={1}, left={2})".format(self.value, self.right, self.left)
RECURSIVE SubTree_repr(_)
SubTree_repr(self) ==
    "Node(value=" \o ToString(self.value)
    \o ", right=" \o (IF self.right = None THEN "None" ELSE SubTree_repr(self.right))
    \o ", left=" \o (IF self.left = None THEN "None" ELSE SubTree_repr(self.left))
    \o ")"

\* repr(self.head)
ring_repr(ringHead) ==
    IF ringHead = None THEN "None" ELSE SubTree_repr(ringHead)

\* ring == otherRing, for the heads of the two rings
ring_eq(ringHead, otherHead) ==
    ring_repr(ringHead) = ring_repr(otherHead)

\* "value in ring": the class defines no __contains__, so Python iterates the
\* ring and compares each value it yields with the argument.
ring_contains(ringHead, value) ==
    IF ringHead = None
    THEN Raise("TypeError")
    ELSE Return(\E i \in 1..Len(SubTree_iter(ringHead)) :
                    SubTree_iter(ringHead)[i] = value)

-----------------------------------------------------------------------------
(* The methods of the ring that change it, as functions of head *)

ring_add_node(ringHead, value) ==
    IF ringHead = None
    THEN SubTree(value)
    ELSE add_child(ringHead, value)

ring_remove_node(ringHead, value) ==
    IF ringHead = None
    THEN ringHead
    ELSE remove_value(ringHead, value)

-----------------------------------------------------------------------------
(* The state machine: one action per call on the ring *)

\* ConsistentHashRing() or ConsistentHashRing(value)
Init ==
    /\ \/ head = None
       \/ \E value \in Values : head = SubTree(value)
    /\ call = [op |-> "__init__"]
    /\ result = Return(None)
    /\ prevHead = None
    /\ added = {}
    /\ phase = "add"
    /\ other_head = None

Called(op, value, outcome) ==
    /\ call' = [op |-> op, arg |-> value]
    /\ result' = outcome
    /\ prevHead' = head

add_node(value) ==
    /\ head' = ring_add_node(head, value)
    /\ Called("add_node", value, Return(None))
    /\ UNCHANGED <<added, phase, other_head>>

remove_node(value) ==
    /\ head' = ring_remove_node(head, value)
    /\ Called("remove_node", value, Return(None))
    /\ UNCHANGED <<added, phase, other_head>>

lookup(value) ==
    /\ Called("find_best_match", value, find_best_match(head, value))
    /\ UNCHANGED <<head, added, phase, other_head>>

iterate ==
    /\ Called("__iter__", None, ring_iter(head))
    /\ UNCHANGED <<head, added, phase, other_head>>

length ==
    /\ Called("__len__", None, ring_len(head))
    /\ UNCHANGED <<head, added, phase, other_head>>

contains(value) ==
    /\ Called("__contains__", value, ring_contains(head, value))
    /\ UNCHANGED <<head, added, phase, other_head>>

Next ==
    \/ \E value \in Values : add_node(value)
    \/ \E value \in Values : remove_node(value)
    \/ \E value \in Values : lookup(value)
    \/ iterate
    \/ length

Spec == Init /\ [][Next]_vars

\* A ring that is only ever added to.
NextAdd ==
    \/ \E value \in Values : add_node(value)
    \/ \E value \in Values : lookup(value)
    \/ iterate
    \/ length

SpecAdd == Init /\ [][NextAdd]_vars

\* A ring that is changed and asked for membership.
NextContains ==
    \/ \E value \in Values : add_node(value)
    \/ \E value \in Values : remove_node(value)
    \/ \E value \in Values : contains(value)

SpecContains == Init /\ [][NextContains]_vars

-----------------------------------------------------------------------------
(* The test cases: values with pairwise distinct hashes are added to an    *)
(* empty ring, in any order, and then removed again, in any order; added   *)
(* is the set of values added and not yet removed.                         *)

InitTest ==
    /\ head = None
    /\ call = [op |-> "__init__"]
    /\ result = Return(None)
    /\ prevHead = None
    /\ added = {}
    /\ phase = "add"
    /\ other_head = None

testcase_add(value) ==
    /\ phase = "add"
    /\ \A other \in added : hash(other) # hash(value)
    /\ head' = ring_add_node(head, value)
    /\ Called("add_node", value, Return(None))
    /\ added' = added \cup {value}
    /\ UNCHANGED <<phase, other_head>>

testcase_remove(value) ==
    /\ value \in added
    /\ head' = ring_remove_node(head, value)
    /\ Called("remove_node", value, Return(None))
    /\ added' = added \ {value}
    /\ phase' = "remove"
    /\ UNCHANGED other_head

NextTest ==
    \/ \E value \in Values : testcase_add(value)
    \/ \E value \in Values : testcase_remove(value)
    \/ \E value \in Values : lookup(value)
    \/ iterate
    \/ length

SpecTest == InitTest /\ [][NextTest]_vars

-----------------------------------------------------------------------------
(* An empty ring that is handed negative values only *)

NextNegative ==
    \/ \E value \in NegativeValues : add_node(value)
    \/ \E value \in NegativeValues : remove_node(value)
    \/ \E value \in NegativeValues : lookup(value)
    \/ iterate

SpecNegative == InitTest /\ [][NextNegative]_vars

-----------------------------------------------------------------------------
(* Two rings, both empty at first and handed negative values, and compared *)

other_add_node(value) ==
    /\ other_head' = ring_add_node(other_head, value)
    /\ Called("other.add_node", value, Return(None))
    /\ UNCHANGED <<head, added, phase>>

other_remove_node(value) ==
    /\ other_head' = ring_remove_node(other_head, value)
    /\ Called("other.remove_node", value, Return(None))
    /\ UNCHANGED <<head, added, phase>>

compare ==
    /\ Called("__eq__", None, Return(ring_eq(head, other_head)))
    /\ UNCHANGED <<head, added, phase, other_head>>

NextPair ==
    \/ \E value \in NegativeValues : add_node(value)
    \/ \E value \in NegativeValues : remove_node(value)
    \/ \E value \in NegativeValues : other_add_node(value)
    \/ \E value \in NegativeValues : other_remove_node(value)
    \/ compare

SpecPair == InitTest /\ [][NextPair]_vars

-----------------------------------------------------------------------------
(* Vocabulary of the properties *)

\* The values the tree holds, as iteration yields them (an empty ring holds none).
Contents(ringHead) == IF ringHead = None THEN <<>> ELSE SubTree_iter(ringHead)

StoredValues(ringHead) == {Contents(ringHead)[i] : i \in 1..Len(Contents(ringHead))}

StoredKeys(ringHead) == {hash(value) : value \in StoredValues(ringHead)}

DistinctKeys(S) == \A x, y \in S : hash(x) = hash(y) => x = y

NoDuplicates(seq) == \A i, j \in 1..Len(seq) : seq[i] = seq[j] => i = j

\* The values of S in increasing order of key.
RECURSIVE SortByKey(_)
SortByKey(S) ==
    IF S = {} THEN <<>>
    ELSE LET least == CHOOSE x \in S : \A y \in S : hash(x) <= hash(y)
         IN <<least>> \o SortByKey(S \ {least})

\* The stored values whose key is the smallest stored key above key.
Successors(ringHead, key) ==
    {value \in StoredValues(ringHead) :
        /\ hash(value) > key
        /\ \A other \in StoredValues(ringHead) :
              hash(other) > key => hash(value) <= hash(other)}

\* The stored values whose key is the smallest stored key.
Minima(ringHead) ==
    {value \in StoredValues(ringHead) :
        \A other \in StoredValues(ringHead) : hash(value) <= hash(other)}

Returned(S) == {Return(Some(value)) : value \in S}

-----------------------------------------------------------------------------
(* The properties *)

\* C1: a lookup of a value the ring currently stores returns that value.
ExactMatchLookup ==
    (call.op = "find_best_match" /\ call.arg \in StoredValues(head))
        => result = Return(Some(call.arg))

\* C2: in a ring built by add_node alone, a lookup of a value whose key is not
\* stored and lies below the largest stored key returns the stored value with
\* the smallest stored key above the target's key.
SuccessorRule ==
    (/\ call.op = "find_best_match"
     /\ head # None
     /\ hash(call.arg) \notin StoredKeys(head)
     /\ \E value \in StoredValues(head) : hash(call.arg) < hash(value))
        => result \in Returned(Successors(head, hash(call.arg)))

\* C3: in a non-empty ring, a lookup of a value whose key is above every stored
\* value's key returns the stored value with the smallest key.
WraparoundRule ==
    (/\ call.op = "find_best_match"
     /\ head # None
     /\ \A value \in StoredValues(head) : hash(call.arg) > hash(value))
        => result \in Returned(Minima(head))

\* C4: after adding values with pairwise distinct keys to an empty ring, in any
\* order, iteration yields exactly those values, each once, in increasing order
\* of key.
OrderPreservation ==
    (call.op = "__iter__" /\ phase = "add" /\ added # {})
        => (DistinctKeys(added) /\ result = Return(SortByKey(added)))

OrderPreservationWitness ==
    /\ call.op = "__iter__"
    /\ phase = "add"
    /\ Cardinality(added) >= 3
    /\ DistinctKeys(added)
    /\ head # None
    /\ head.left # None
    /\ head.right # None
    /\ result = Return(SortByKey(added))

\* C5: right after add_node(v) the tree's key search finds v, and right after
\* remove_node(v) it does not (an emptied ring contains nothing).
RoundTripMembership ==
    /\ call.op = "add_node" => (head # None /\ SubTree_contains(head, call.arg))
    /\ (call.op = "remove_node" /\ head # None) => ~SubTree_contains(head, call.arg)

\* C6: remove_node of a value that is not stored (no stored value even shares
\* its key) raises nothing and leaves the values iteration yields as they were.
RemoveAbsentIsNoOp ==
    (call.op = "remove_node" /\ hash(call.arg) \notin StoredKeys(prevHead))
        => (result = Return(None) /\ Contents(head) = Contents(prevHead))

\* C7: head is None exactly when the ring holds no value: in particular, once
\* every value that was added has been removed again, head is None.
RemoveAllEmptiesRing ==
    head = None <=> added = {}

\* C8: on an empty ring, length is 0 and iteration yields the empty sequence;
\* neither raises.
EmptyLengthAndIteration ==
    /\ (call.op = "__len__" /\ prevHead = None) => result = Return(0)
    /\ (call.op = "__iter__" /\ prevHead = None) => result = Return(<<>>)

\* C9: find_best_match on an empty ring returns None, whatever the argument,
\* and the ring stays empty.
LookupOnEmptyRing ==
    (call.op = "find_best_match" /\ prevHead = None)
        => (result = Return(None) /\ head = None)

LookupOnEmptyRingWitness ==
    /\ call.op = "find_best_match"
    /\ prevHead = None
    /\ head = None
    /\ result = Return(None)

\* C10: add_node of a value the ring already stores leaves the tree as it was,
\* and iteration never yields a value twice.
AddIsIdempotent ==
    /\ (call.op = "add_node" /\ call.arg \in StoredValues(prevHead)) => head = prevHead
    /\ NoDuplicates(Contents(head))

\* C11: membership in the ring is false for an empty ring and otherwise is the
\* answer of the root's key search.
MembershipIsKeySearch ==
    call.op = "__contains__"
        => /\ result.raised = "none"
           /\ result.value = IF prevHead = None
                             THEN FALSE
                             ELSE SubTree_contains(prevHead, call.arg)

\* C12: add_node(w) on a ring that stores a different value v with the hash of
\* w is dropped: the tree is as it was, every such v is still what a lookup of v
\* returns, and iteration does not yield w.
Colliding(ringHead, value) ==
    {stored \in StoredValues(ringHead) : stored # value /\ hash(stored) = hash(value)}

CollisionIsDropped ==
    (call.op = "add_node" /\ Colliding(prevHead, call.arg) # {})
        => /\ head = prevHead
           /\ \A stored \in Colliding(prevHead, call.arg) :
                 find_best_match(head, stored) = Return(Some(stored))
           /\ call.arg \notin StoredValues(head)

\* C13: two rings compare equal exactly when their trees have the same shape
\* and the same value at every position; so two rings that hold the same values
\* in trees of different shapes compare unequal.
RECURSIVE SameShape(_, _)
SameShape(tree, otherTree) ==
    IF tree = None \/ otherTree = None
    THEN tree = None /\ otherTree = None
    ELSE /\ SameShape(tree.left, otherTree.left)
         /\ SameShape(tree.right, otherTree.right)

RECURSIVE SameShapeAndValues(_, _)
SameShapeAndValues(tree, otherTree) ==
    IF tree = None \/ otherTree = None
    THEN tree = None /\ otherTree = None
    ELSE /\ tree.value = otherTree.value
         /\ SameShapeAndValues(tree.left, otherTree.left)
         /\ SameShapeAndValues(tree.right, otherTree.right)

EqualityIsStructural ==
    call.op = "__eq__"
        => /\ result = Return(SameShapeAndValues(head, other_head))
           /\ (StoredValues(head) = StoredValues(other_head) /\ ~SameShape(head, other_head))
                 => result = Return(FALSE)

EqualityIsStructuralWitness ==
    /\ call.op = "__eq__"
    /\ head # None
    /\ StoredValues(head) = StoredValues(other_head)
    /\ ~SameShape(head, other_head)
    /\ result = Return(FALSE)

\* The nodes of a tree.
RECURSIVE Nodes(_)
Nodes(tree) ==
    IF tree = None THEN {}
    ELSE {tree} \cup Nodes(tree.left) \cup Nodes(tree.right)

\* C14: every node of the tree has key = hash(value); a two-child removal
\* replaces the value and the key of the node together.
KeyValueConsistency ==
    \A node \in Nodes(head) : node.key = hash(node.value)

\* C15: for every node, the values of its left subtree hash below the hash of
\* its value and those of its right subtree above; iteration yields values in
\* strictly increasing order of key.
StrictlyIncreasingByKey(seq) ==
    \A i \in 1..(Len(seq) - 1) : hash(seq[i]) < hash(seq[i + 1])

SearchTreeOrder ==
    /\ \A node \in Nodes(head) :
          /\ \A value \in StoredValues(node.left) : hash(value) < hash(node.value)
          /\ \A value \in StoredValues(node.right) : hash(value) > hash(node.value)
    /\ StrictlyIncreasingByKey(Contents(head))

\* C16: when remove_node(v) matches a node with two children, afterwards the
\* node holds the value that was the minimum of its right subtree, the right
\* subtree no longer holds that value and still holds every other value it had,
\* and the left subtree is as it was.  before and after are the trees at one
\* position before and after the call.
RECURSIVE SuccessorCopyAt(_, _, _)
SuccessorCopyAt(before, after, value) ==
    IF before = None THEN TRUE
    ELSE IF before.key = hash(value)
    THEN (before.left # None /\ before.right # None)
            => /\ after # None
               /\ after.value \in Minima(before.right)
               /\ after.value \notin StoredValues(after.right)
               /\ StoredValues(after.right) = StoredValues(before.right) \ {after.value}
               /\ after.left = before.left
    ELSE /\ after # None
         /\ SuccessorCopyAt(before.left, after.left, value)
         /\ SuccessorCopyAt(before.right, after.right, value)

TwoChildRemovalCopiesSuccessor ==
    call.op = "remove_node" => SuccessorCopyAt(prevHead, head, call.arg)

\* C17: on a ring that holds a value, find_best_match returns a value the ring
\* stores at that moment (not None, not a key, not a value since removed), and
\* the ring is as it was.
LookupReturnsStoredValue ==
    (call.op = "find_best_match" /\ prevHead # None)
        => /\ result \in Returned(StoredValues(head))
           /\ head = prevHead

\* A lookup answered by a ring in which a removal has left a node whose key is
\* not the hash of its value.
LookupReturnsStoredValueWitness ==
    /\ call.op = "find_best_match"
    /\ prevHead # None
    /\ \E node \in Nodes(head) : node.key # hash(node.value)
    /\ result \in Returned(StoredValues(head))
    /\ head = prevHead

\* C18: two rings that compare equal answer every lookup alike, and the same
\* add_node or remove_node call on both leaves them equal.
EqualRingsBehaveAlike ==
    (call.op = "__eq__" /\ result = Return(TRUE))
        => \A value \in NegativeValues :
              /\ find_best_match(head, value) = find_best_match(other_head, value)
              /\ ring_eq(ring_add_node(head, value), ring_add_node(other_head, value))
              /\ ring_eq(ring_remove_node(head, value), ring_remove_node(other_head, value))

=============================================================================
